---------------------------- MODULE Spec2Model ----------------------------
(***************************************************************************)
(* State-machine model of the S2 example resource managers:                *)
(*   battery/src/battery_simulator.rs          (FRBC storage simulator)    *)
(*   pv-installation/src/pv_simulator_pebc.rs  (PEBC generation simulator) *)
(*   pv-installation/src/pv_simulator_simple.rs (not-controllable PV)      *)
(*                                                                         *)
(* Numbers.  f64 quantities are fixed-point integers:                      *)
(*   fill levels and fill rates  : n stands for n / FillUnit               *)
(*   operation mode factors      : n stands for n / FactorUnit             *)
(*   normalised power (PV)       : n stands for n / NormUnit               *)
(* Wall-clock instants are integers counting clock ticks of                *)
(* 1 / TicksPerSecond seconds since the simulator was constructed.         *)
(* A handler of the select! loop is evaluated at one instant.              *)
(*                                                                         *)
(* Identifiers.  Id values are opaque and only ever compared for equality. *)
(* A generated UUID is a nondeterministic member of IdPool.                *)
(***************************************************************************)
EXTENDS Integers, Sequences, FiniteSets, TLC

VARIABLES
    program,                \* which binary / simulator runs: "battery", "pebc", "simple"
    pc,                     \* position of start_mock
    now,                    \* Utc::now()
    sent,                   \* messages handed to connection.send_message by the last step
    call,                   \* the last Simulator operation performed, with its inputs and pre-state
    result,                 \* what that operation returned
    \* battery_simulator.rs, struct Simulator
    operation_modes,
    fill_level,
    active_operation_mode,
    operation_mode_factor,
    simulation_start,
    last_updated,
    \* pv_simulator_pebc.rs and pv_simulator_simple.rs, struct PvSimulator
    profile,
    time_delta,
    constraints

batteryVars == <<operation_modes, fill_level, active_operation_mode,
                 operation_mode_factor, simulation_start, last_updated>>

pvVars == <<profile, time_delta, constraints>>

vars == <<program, pc, now, sent, call, result, batteryVars, pvVars>>

-----------------------------------------------------------------------------
(* Bounds of the model *)

\* number of distinct identifier values
NumIds == 4
\* number of short waits (one clock tick) between events of a session
MaxShort == 2
\* number of long waits (LongElapsed) between events of a session
MaxLong == 1

IdPool == 1..NumIds

-----------------------------------------------------------------------------
(* Number representation *)

FillUnit == 57600
FactorUnit == 2
TicksPerSecond == 2

Min(a, b) == IF a <= b THEN a ELSE b
Max(a, b) == IF a >= b THEN a ELSE b

\* a clamp that forgets the upper bound
ClampLowerOnly(x, lo, hi) == IF x < lo THEN lo ELSE x

\* f64::clamp(min, max)
Clamp(x, lo, hi) == IF x < lo THEN lo ELSE IF x > hi THEN hi ELSE x

\* TimeDelta::num_seconds(): whole seconds, truncated toward zero
NumSeconds(delta) ==
    IF delta >= 0 THEN delta \div TicksPerSecond
                  ELSE -((-delta) \div TicksPerSecond)

-----------------------------------------------------------------------------
(* Identifiers *)

\* uuid::Uuid::new_v4() / Id::generate(): any identifier value
NewV4 == IdPool

\* The values a newly generated identifier can take, up to renaming: one of the
\* identifiers generated before it, or one that differs from all of them.
NewV4After(used) ==
    used \cup (IF IdPool \ used = {} THEN {}
               ELSE {CHOOSE i \in IdPool \ used : \A j \in IdPool \ used : i <= j})

\* n identifiers generated one after the other
RECURSIVE Generate(_, _)
Generate(n, used) ==
    IF n = 0 THEN {<<>>}
    ELSE UNION {{<<i>> \o s : s \in Generate(n - 1, used \cup {i})} : i \in NewV4After(used)}

\* HashMap::insert: a later insertion under an equal key replaces the value
HashMapInsert(m, k, v) == [x \in (DOMAIN m) \cup {k} |-> IF x = k THEN v ELSE m[x]]

EmptyMap == [x \in {} |-> 0]

-----------------------------------------------------------------------------
(* battery_simulator.rs: constants and operation modes *)

CHARGE_EFFICIENCY == 1
DISCHARGE_EFFICIENCY == 1
CAPACITY_WH == 20000
INITIAL_FILL_LEVEL == FillUnit \div 2

\* The OperationMode values built by Simulator::new.  Their id field is the
\* value of one more use of the const OPERATION_MODE_*; nothing reads it before
\* system_description copies the modes, and the model generates it there
\* (AdvertisedMode).
OperationModeIdle ==
    [diagnostic_label |-> "Idle",
     fill_rate |-> [start_of_range |-> 0, end_of_range |-> 0],
     power_range |-> [start_of_range |-> 0, end_of_range |-> 0]]

OperationModeCharge ==
    [diagnostic_label |-> "Charging battery",
     fill_rate |-> [start_of_range |-> CHARGE_EFFICIENCY * (((5000 * FillUnit) \div CAPACITY_WH) \div 3600),
                    end_of_range |-> (CHARGE_EFFICIENCY * (((5000 * FillUnit) \div CAPACITY_WH) \div 3600)) \div 2],
     power_range |-> [start_of_range |-> 5000, end_of_range |-> 5000 \div 2]]

OperationModeDischarge ==
    [diagnostic_label |-> "Discharging battery",
     fill_rate |-> [start_of_range |-> DISCHARGE_EFFICIENCY * (((5000 * FillUnit) \div CAPACITY_WH) \div 3600),
                    end_of_range |-> (DISCHARGE_EFFICIENCY * (((5000 * FillUnit) \div CAPACITY_WH) \div 3600)) \div 2],
     power_range |-> [start_of_range |-> -5000, end_of_range |-> -(5000 \div 2)]]

\* Simulator::new, lines 172-183.  A const item is evaluated anew at each use,
\* so each use of OPERATION_MODE_* builds its own LazyLock and generates its
\* own UUID.  d lists the values of the four uses in the struct expression, in
\* evaluation order: the hashmap! keys of the idle, charge and discharge modes,
\* and active_operation_mode.
SimulatorNew(d) ==
    [operation_modes |->
         HashMapInsert(
             HashMapInsert(
                 HashMapInsert(EmptyMap, d[1], OperationModeIdle),
                 d[2], OperationModeCharge),
             d[3], OperationModeDischarge),
     fill_level |-> INITIAL_FILL_LEVEL,
     active_operation_mode |-> d[4],
     operation_mode_factor |-> FactorUnit \div 2]

-----------------------------------------------------------------------------
(* battery_simulator.rs: Simulator::update *)

\* operation_modes[&active_operation_mode] panics when the key is absent
UpdatePanics == active_operation_mode \notin DOMAIN operation_modes

FillRateDoubledFactor(fill_rates, factor) ==
    fill_rates.start_of_range
        + ((fill_rates.end_of_range - fill_rates.start_of_range) * 2 * factor) \div FactorUnit

FillRateReversed(fill_rates, factor) ==
    fill_rates.end_of_range
        + ((fill_rates.start_of_range - fill_rates.end_of_range) * factor) \div FactorUnit

\* lines 264-266: interpolation between the ends of the fill-rate range
FillRate(fill_rates, factor) ==
    fill_rates.start_of_range
        + ((fill_rates.end_of_range - fill_rates.start_of_range) * factor) \div FactorUnit

\* line 267: the value of fill_level before line 268 clamps it
Unclamped(t) ==
    fill_level
        + FillRate(operation_modes[active_operation_mode].fill_rate, operation_mode_factor)
            * NumSeconds(t - last_updated)

UnchangedFillLevel(t) == fill_level

\* lines 267-268: the fill level at instant t
UpdatedFillLevel(t) == Clamp(Unclamped(t), 0, FillUnit)

StorageStatus(level) == [type |-> "FRBC.StorageStatus", present_fill_level |-> level]

\* The record kept of a call of update: whether it panicked, and the fill level
\* it computed before clamping (the current level when it panicked)
UpdateRecord(op, t) ==
    [op |-> op, panicked |-> UpdatePanics,
     unclamped |-> IF UpdatePanics THEN fill_level ELSE Unclamped(t),
     before |-> fill_level,
     seconds |-> NumSeconds(t - last_updated)]

-----------------------------------------------------------------------------
(* battery_simulator.rs: Simulator::process_message *)

\* line 312: if let Message::FrbcInstruction(instruction) = msg
IsFrbcInstruction(msg) == msg.type = "FRBC.Instruction"

\* lines 313-315: operation_modes.contains_key(&instruction.operation_mode)
ContainsKey(m, k) == k \in DOMAIN m

InstructionStatusUpdate(instruction_id, status_type, timestamp) ==
    [type |-> "InstructionStatusUpdate", instruction_id |-> instruction_id,
     status_type |-> status_type, timestamp |-> timestamp]

\* lines 343-350; actuator_id is the value of this use of the const ACTUATOR_1
ActuatorStatus(active, actuator_id, factor, previous, timestamp) ==
    [type |-> "FRBC.ActuatorStatus", active_operation_mode_id |-> active,
     actuator_id |-> actuator_id, operation_mode_factor |-> factor,
     previous_operation_mode_id |-> previous, transition_timestamp |-> timestamp]

\* lines 311-357, after the call of update at line 309 returned storage_status:
\* the new active mode and factor and the messages returned
ProcessMessageBodySwitching(msg, storage_status, actuator_id, t) ==
    IF IsFrbcInstruction(msg)
    THEN IF ContainsKey(operation_modes, msg.operation_mode)
         THEN [active_operation_mode |-> msg.operation_mode,
               operation_mode_factor |-> msg.operation_mode_factor,
               result |-> << InstructionStatusUpdate(msg.id, "Succeeded", t),
                             ActuatorStatus(msg.operation_mode, actuator_id,
                                            msg.operation_mode_factor,
                                            active_operation_mode, t),
                             storage_status >>]
         ELSE [active_operation_mode |-> active_operation_mode,
               operation_mode_factor |-> msg.operation_mode_factor,
               result |-> << InstructionStatusUpdate(msg.id, "Rejected", t) >>]
    ELSE [active_operation_mode |-> active_operation_mode,
          operation_mode_factor |-> operation_mode_factor,
          result |-> << >>]

ProcessMessageBody(msg, storage_status, actuator_id, t) ==
    IF IsFrbcInstruction(msg)
    THEN IF ContainsKey(operation_modes, msg.operation_mode)
         THEN [active_operation_mode |-> msg.operation_mode,
               operation_mode_factor |-> msg.operation_mode_factor,
               result |-> << InstructionStatusUpdate(msg.id, "Succeeded", t),
                             ActuatorStatus(msg.operation_mode, actuator_id,
                                            msg.operation_mode_factor,
                                            active_operation_mode, t),
                             storage_status >>]
         ELSE [active_operation_mode |-> active_operation_mode,
               operation_mode_factor |-> operation_mode_factor,
               result |-> << InstructionStatusUpdate(msg.id, "Rejected", t) >>]
    ELSE [active_operation_mode |-> active_operation_mode,
          operation_mode_factor |-> operation_mode_factor,
          result |-> << >>]

-----------------------------------------------------------------------------
(* battery_simulator.rs: Simulator::system_description and the other documents *)

\* lines 210-253: the four advertised transitions, by the consts the code names
\* as their from and to modes
DeclaredTransitions ==
    << <<"Idle", "Charging battery">>, <<"Charging battery", "Idle">>,
       <<"Idle", "Discharging battery">>, <<"Discharging battery", "Idle">> >>

\* lines 203-207 with 125, 147, 169: the mode stored under key, as advertised;
\* id is the value its id field was given
AdvertisedMode(key, id) ==
    [kind |-> "operation_mode", key |-> key, id |-> id,
     diagnostic_label |-> operation_modes[key].diagnostic_label]

\* line 202: actuator_id is the value of this use of the const ACTUATOR_1
AdvertisedActuator(actuator_id) == [kind |-> "actuator", id |-> actuator_id]

\* lines 210-253: entry k of the transition list; from and to are the values of
\* its two uses of the consts OPERATION_MODE_*
AdvertisedTransition(k, from, to) ==
    [kind |-> "transition", index |-> k, labels |-> DeclaredTransitions[k],
     from |-> from, to |-> to]

\* The identifier-carrying parts of a system description.  Every part is
\* generated independently of the others.
DescriptionParts ==
    {AdvertisedActuator(a) : a \in NewV4}
    \cup {AdvertisedMode(key, id) : key \in DOMAIN operation_modes, id \in NewV4}
    \cup {AdvertisedTransition(k, from, to) : k \in 1..4, from \in NewV4, to \in NewV4}

\* lines 186-257.  The description is observed one identifier-carrying part at
\* a time.
SystemDescription(part) == [type |-> "FRBC.SystemDescription", part |-> part]

\* lines 273-285
LeakageBehaviour == [type |-> "FRBC.LeakageBehaviour"]

\* lines 287-305
UsageForecast ==
    [type |-> "FRBC.UsageForecast",
     elements |-> [i \in 1..24 |-> [duration |-> 1000 * 3600, usage_rate_expected |-> 0]]]

-----------------------------------------------------------------------------
(* Inputs *)

\* the long wait between two events: four hours
LongElapsed == 4 * 3600 * TicksPerSecond

\* The waits (in clock ticks) that may precede the next event at instant t: one
\* tick (half a second), or LongElapsed
Elapsed(t) ==
    (IF t % LongElapsed < MaxShort THEN {1} ELSE {})
    \cup (IF t \div LongElapsed < MaxLong THEN {LongElapsed} ELSE {})

\* operation mode factors carried by instructions: 0.0, 1.0, 4.0
Factors == {0, FactorUnit, 4 * FactorUnit}

InstructionIds == {1, 2}

FrbcInstructions ==
    [type : {"FRBC.Instruction"}, id : InstructionIds,
     operation_mode : IdPool, operation_mode_factor : Factors]

OtherMessages == {[type |-> "ReceptionStatus"]}

ControlTypes == {"FillRateBasedControl", "PowerEnvelopeBasedControl",
                 "NotControlable", "NoSelection"}

\* what connection.initialize_as_rm returns: the control type the CEM
\* selected, or an error
Negotiations == ControlTypes \cup {"error"}

NoCall == [op |-> "none"]

\* connection.send_message: how many of n messages are sent before a send
\* fails (n: none fails)
SendOutcomes(n) == 0..n

-----------------------------------------------------------------------------
(* battery_simulator.rs: start_mock *)

BatteryInit ==
    /\ program = "battery"
    /\ pc = "initialize_as_rm"
    /\ now = 0
    /\ sent = << >>
    /\ call = NoCall
    /\ result = << >>
    /\ \E d \in Generate(4, {}) :
          /\ operation_modes = SimulatorNew(d).operation_modes
          /\ fill_level = SimulatorNew(d).fill_level
          /\ active_operation_mode = SimulatorNew(d).active_operation_mode
          /\ operation_mode_factor = SimulatorNew(d).operation_mode_factor
    /\ simulation_start = 0
    /\ last_updated = 0
    /\ profile = EmptyMap
    /\ time_delta = 0
    /\ constraints = << >>

SimulatorUnchanged == UNCHANGED <<batteryVars, pvVars>>

\* connection.send_message(m).await?  for each m of msgs in turn: the first k
\* are sent; a failing send returns the error from start_mock
SendAll(msgs, k, next) ==
    /\ sent' = SubSeq(msgs, 1, k)
    /\ pc' = IF k = Len(msgs) THEN next ELSE "err"

\* lines 19-39: the control type initialize_as_rm returns is dropped, only an
\* error is looked at
BatteryInitializeAsRm(control_type) ==
    /\ program = "battery" /\ pc = "initialize_as_rm"
    /\ pc' = IF control_type # "error" THEN "send_system_description" ELSE "err"
    /\ UNCHANGED <<program, now, sent, call, result>>
    /\ SimulatorUnchanged

\* lines 42-44
BatterySendSystemDescription(part, n) ==
    /\ program = "battery" /\ pc = "send_system_description"
    /\ call' = [op |-> "system_description"]
    /\ result' = << SystemDescription(part) >>
    /\ SendAll(result', n, "send_leakage_behaviour")
    /\ UNCHANGED <<program, now>>
    /\ SimulatorUnchanged

\* A start-up sequence that leaves out the usage forecast (compared with
\* lines 45-48 in the session-start claim)
BatterySendLeakageSkippingForecast(n) ==
    /\ program = "battery" /\ pc = "send_leakage_behaviour"
    /\ call' = [op |-> "leakage_behaviour"]
    /\ result' = << LeakageBehaviour >>
    /\ SendAll(result', n, "select")
    /\ UNCHANGED <<program, now>>
    /\ SimulatorUnchanged

\* lines 45-47
BatterySendLeakageBehaviour(n) ==
    /\ program = "battery" /\ pc = "send_leakage_behaviour"
    /\ call' = [op |-> "leakage_behaviour"]
    /\ result' = << LeakageBehaviour >>
    /\ SendAll(result', n, "send_forecast")
    /\ UNCHANGED <<program, now>>
    /\ SimulatorUnchanged

\* line 48
BatterySendForecast(n) ==
    /\ program = "battery" /\ pc = "send_forecast"
    /\ call' = [op |-> "forecast"]
    /\ result' = << UsageForecast >>
    /\ SendAll(result', n, "select")
    /\ UNCHANGED <<program, now>>
    /\ SimulatorUnchanged

\* lines 51-52: the loop comes back to select!
BatteryLoop ==
    /\ program = "battery" /\ pc = "loop"
    /\ pc' = "select"
    /\ sent' = << >>
    /\ result' = << >>
    /\ call' = NoCall
    /\ UNCHANGED <<program, now>>
    /\ SimulatorUnchanged

\* lines 55-58: the number of messages process_message hands to the send loop
\* (none when update panics)
Replies(msg) ==
    IF UpdatePanics \/ ~ IsFrbcInstruction(msg) THEN 0
    ELSE IF ContainsKey(operation_modes, msg.operation_mode) THEN 3 ELSE 1

\* lines 53-59: a message arrives dt after the previous event
BatteryReceiveMessage(dt, msg, actuator_id, n) ==
    /\ program = "battery" /\ pc = "select"
    /\ now' = now + dt
    /\ call' = UpdateRecord("process_message", now')
    /\ last_updated' = now'
    /\ IF UpdatePanics
       THEN /\ pc' = "panic"
            /\ result' = << >>
            /\ sent' = << >>
            /\ UNCHANGED <<fill_level, active_operation_mode, operation_mode_factor>>
       ELSE LET r == ProcessMessageBody(msg, StorageStatus(UpdatedFillLevel(now')),
                                        actuator_id, now')
            IN  /\ fill_level' = UpdatedFillLevel(now')
                /\ active_operation_mode' = r.active_operation_mode
                /\ operation_mode_factor' = r.operation_mode_factor
                /\ result' = r.result
                /\ SendAll(r.result, Min(n, Len(r.result)), "loop")
    /\ UNCHANGED <<program, operation_modes, simulation_start, pvVars>>

\* line 54: receive_message returned an error
BatteryReceiveError(dt) ==
    /\ program = "battery" /\ pc = "select"
    /\ now' = now + dt
    /\ pc' = "err"
    /\ sent' = << >>
    /\ UNCHANGED <<program, call, result>>
    /\ SimulatorUnchanged

\* lines 61-65: the status timer fires dt after the previous event
BatteryUpdateTimer(dt, n) ==
    /\ program = "battery" /\ pc = "select"
    /\ now' = now + dt
    /\ call' = UpdateRecord("update", now')
    /\ last_updated' = now'
    /\ IF UpdatePanics
       THEN /\ pc' = "panic"
            /\ result' = << >>
            /\ sent' = << >>
            /\ UNCHANGED fill_level
       ELSE /\ fill_level' = UpdatedFillLevel(now')
            /\ result' = << StorageStatus(fill_level') >>
            /\ SendAll(result', n, "loop")
    /\ UNCHANGED <<program, operation_modes, active_operation_mode,
                   operation_mode_factor, simulation_start, pvVars>>

\* lines 67-74: Ctrl-C breaks the loop and start_mock returns Ok(())
BatteryCtrlC ==
    /\ program = "battery" /\ pc = "select"
    /\ pc' = "ok"
    /\ sent' = << >>
    /\ UNCHANGED <<program, now, call, result>>
    /\ SimulatorUnchanged

BatteryNext ==
    \/ \E c \in Negotiations : BatteryInitializeAsRm(c)
    \/ \E part \in DescriptionParts, n \in SendOutcomes(1) :
          BatterySendSystemDescription(part, n)
    \/ \E n \in SendOutcomes(1) : BatterySendLeakageBehaviour(n)
    \/ \E n \in SendOutcomes(1) : BatterySendForecast(n)
    \/ BatteryLoop
    \/ /\ program = "battery" /\ pc = "select"
       /\ \E dt \in Elapsed(now), msg \in FrbcInstructions \cup OtherMessages :
             \E a \in IF Replies(msg) = 3 THEN NewV4 ELSE {1},
                n \in SendOutcomes(Replies(msg)) :
                BatteryReceiveMessage(dt, msg, a, n)
    \/ /\ program = "battery" /\ pc = "select"
       /\ \E dt \in Elapsed(now) : BatteryReceiveError(dt)
    \/ /\ program = "battery" /\ pc = "select"
       /\ \E dt \in Elapsed(now), n \in SendOutcomes(1) : BatteryUpdateTimer(dt, n)
    \/ BatteryCtrlC

SpecBattery == BatteryInit /\ [][BatteryNext]_vars

-----------------------------------------------------------------------------
(* pv_simulator_pebc.rs, pv_simulator_simple.rs: numbers and time *)

\* const POWER_IN_W: f64 = 2000.  (the same in both files)
POWER_IN_W == 2000

\* f64 normalised power (profile values, PvConstraint limits): n stands for
\* n / NormUnit.  Limits in watts are multiples of POWER_IN_W / NormUnit, so
\* the division by POWER_IN_W and the multiplication by it are exact, as they
\* are in f64 for these values.
NormUnit == 8

Hour == 3600 * TicksPerSecond

QuarterHour == Hour \div 4

\* TimeDelta::milliseconds(element.duration.0 as i64)
Milliseconds(ms) == (ms * TicksPerSecond) \div 1000

\* x * POWER_IN_W, x normalised
TimesPowerInW(x) == (x * POWER_IN_W) \div NormUnit

\* w / POWER_IN_W, w in watts
DividedByPowerInW(w) == (w * NormUnit) \div POWER_IN_W

\* chrono DurationRound::duration_round: to the nearest multiple of span, a
\* tie going up
DurationRound(t, span) ==
    LET delta_down == t % span
        delta_up == span - delta_down
    IN  IF delta_down = 0 THEN t
        ELSE IF delta_up <= delta_down THEN t + delta_up ELSE t - delta_down

-----------------------------------------------------------------------------
(* PvSimulator::new *)

\* DateTime::parse_from_rfc3339("2030-01-01T12:00:00Z"), counted from
\* 2030-01-01T00:00:00Z on the simulated timeline
SimulatedStartTime == 12 * Hour

\* One day of the bundled profile: normalised generation by hour of day
DayCurve(h) == Max(0, NormUnit - 2 * (IF h >= 14 THEN h - 14 ELSE 14 - h))

\* include_str!("solar.csv"): hour-aligned timestamp -> value in [0, 1],
\* covering the simulated session and the 24 hours after it
SolarCsv == [ts \in {h * Hour : h \in 0..47} |-> DayCurve((ts \div Hour) % 24)]

\* PvSimulator::new() called at wall-clock instant t
PvSimulatorNew(t) ==
    [profile |-> SolarCsv,
     time_delta |-> SimulatedStartTime - t,
     constraints |-> << >>]

-----------------------------------------------------------------------------
(* PvSimulator: get_current_constraints, add_constraint *)

\* the unconstrained bounds (-1.0, 1.0)
Unconstrained == << -NormUnit, NormUnit >>

RECURSIVE LastMatch(_, _, _)
LastMatch(cs, i, t) ==
    IF i < 1 THEN 0
    ELSE IF cs[i].start_time <= t /\ cs[i].end_time >= t THEN i
    ELSE LastMatch(cs, i - 1, t)

GetCurrentConstraintsLast(cs, t) ==
    LET i == LastMatch(cs, Len(cs), t)
    IN  IF i = 0 THEN Unconstrained
        ELSE << cs[i].lower_limit, cs[i].upper_limit >>

\* the for loop of get_current_constraints from index i on: the index of the
\* first constraint with start_time <= now && end_time >= now, 0 if none
RECURSIVE FirstMatch(_, _, _)
FirstMatch(cs, i, t) ==
    IF i > Len(cs) THEN 0
    ELSE IF cs[i].start_time <= t /\ cs[i].end_time >= t THEN i
    ELSE FirstMatch(cs, i + 1, t)

\* get_current_constraints at wall-clock instant t
GetCurrentConstraints(cs, t) ==
    LET i == FirstMatch(cs, 1, t)
    IN  IF i = 0 THEN Unconstrained
        ELSE << cs[i].lower_limit, cs[i].upper_limit >>

RetainAll(cs, t) == cs

\* constraints.retain(|constraint| constraint.end_time > Utc::now())
Retain(cs, t) ==
    LET Keep(c) == c.end_time > t
    IN  SelectSeq(cs, Keep)

PvConstraint(start_time, end_time, lower_limit, upper_limit) ==
    [lower_limit |-> DividedByPowerInW(lower_limit),
     upper_limit |-> DividedByPowerInW(upper_limit),
     start_time |-> start_time,
     end_time |-> end_time]

\* add_constraint at wall-clock instant t: push, then retain
AddConstraint(cs, start_time, end_time, lower_limit, upper_limit, t) ==
    Retain(Append(cs, PvConstraint(start_time, end_time, lower_limit, upper_limit)), t)

-----------------------------------------------------------------------------
(* PvSimulator: get_current_power, get_24h_forecast *)

\* simulated_current_time.duration_round(TimeDelta::hours(1)).unwrap()
RoundedTime(t) == DurationRound(t + time_delta, Hour)

\* self.profile.get(..).unwrap() panics on a timestamp the profile lacks
LookupMiss(keys) == \E k \in keys : k \notin DOMAIN profile

NoClamp(value, limits) == value

\* .max(lower_limit).min(upper_limit)
MaxMin(value, limits) == Min(Max(value, limits[1]), limits[2])

\* pv_simulator_pebc.rs get_current_power at wall-clock instant t
GetCurrentPower(t) ==
    TimesPowerInW(MaxMin(profile[RoundedTime(t)],
                         GetCurrentConstraints(constraints, t)))

\* pv_simulator_simple.rs get_current_power at wall-clock instant t
GetCurrentPowerSimple(t) == TimesPowerInW(profile[RoundedTime(t)])

\* the timestamps get_24h_forecast looks up, offset in 0..24
ForecastTimes(t) == {RoundedTime(t) + (offset + 1) * Hour : offset \in 0..23}

Get24hForecastClamped(t) ==
    [k \in 1..24 |->
        TimesPowerInW(MaxMin(profile[RoundedTime(t) + k * Hour],
                             GetCurrentConstraints(constraints, t)))]

\* get_24h_forecast at wall-clock instant t (the same code in both files)
Get24hForecast(t) ==
    [k \in 1..24 |-> TimesPowerInW(profile[RoundedTime(t) + k * Hour])]

-----------------------------------------------------------------------------
(* PV sessions: messages *)

PowerMeasurement(value, t) ==
    [type |-> "PowerMeasurement",
     commodity_quantity |-> "ElectricPowerL1",
     value |-> value,
     measurement_timestamp |-> t]

PowerForecast(values, t) ==
    [type |-> "PowerForecast",
     elements |-> [k \in DOMAIN values |->
                     [duration |-> 1000 * 60 * 60, value |-> values[k]]],
     start_time |-> t]

NotNegated(values) == values

\* simple lines 66-72: -forecast_value for each forecast value
Negated(values) == [k \in DOMAIN values |-> -values[k]]

PowerConstraints(t) ==
    [type |-> "PEBC.PowerConstraints",
     upper_limit_range |-> <<0, 0>>,
     lower_limit_range |-> <<0, -POWER_IN_W>>,
     valid_from |-> t]

SessionRequestTerminate == [type |-> "SessionRequest", request |-> "Terminate"]

\* the store loop over the elements of one envelope
RECURSIVE AddElements(_, _, _, _)
AddElements(cs, base_time, elements, t) ==
    IF elements = << >> THEN cs
    ELSE LET element == Head(elements)
             end_time == base_time + Milliseconds(element.duration)
         IN  AddElements(AddConstraint(cs, base_time, end_time,
                                       element.lower_limit, element.upper_limit, t),
                         base_time, Tail(elements), t)

\* A store loop without the commodity test of lines 91-94 (compared with the
\* store loop in the instruction claim)
RECURSIVE StoreEnvelopesAnyCommodity(_, _, _, _)
StoreEnvelopesAnyCommodity(cs, base_time, envelopes, t) ==
    IF envelopes = << >> THEN cs
    ELSE StoreEnvelopesAnyCommodity(
             AddElements(cs, base_time, Head(envelopes).power_envelope_elements, t),
             base_time, Tail(envelopes), t)

\* the store loop over the envelopes of one instruction
RECURSIVE StoreEnvelopes(_, _, _, _)
StoreEnvelopes(cs, base_time, envelopes, t) ==
    IF envelopes = << >> THEN cs
    ELSE LET envelope == Head(envelopes)
         IN  StoreEnvelopes(
                 IF envelope.commodity_quantity # "ElectricPowerL1" THEN cs
                 ELSE AddElements(cs, base_time, envelope.power_envelope_elements, t),
                 base_time, Tail(envelopes), t)

\* number of add_constraint calls the store loop makes
RECURSIVE AddConstraintCalls(_)
AddConstraintCalls(envelopes) ==
    IF envelopes = << >> THEN 0
    ELSE (IF Head(envelopes).commodity_quantity # "ElectricPowerL1" THEN 0
          ELSE Len(Head(envelopes).power_envelope_elements))
         + AddConstraintCalls(Tail(envelopes))

IsPebcInstruction(msg) == msg.type = "PEBC.Instruction"

-----------------------------------------------------------------------------
(* PV sessions: inputs *)

\* longest constraint list explored
MaxConstraints == 2

\* simulated session length explored, in quarters of an hour
MaxQuarters == 4

\* time passed since the previous event of the loop
PvElapsed(t) == {dt \in {0, QuarterHour} : t + dt <= MaxQuarters * QuarterHour}

\* element durations in milliseconds: half an hour, one hour
Durations == {30 * 60 * 1000, 60 * 60 * 1000}

\* lower and upper limits in watts; the third has lower_limit > upper_limit
LimitPairs == {<<-2000, 0>>, <<1250, 1500>>, <<1000, 500>>, <<-2000, -500>>}

\* instruction.execution_time: one hour before construction, at construction
ExecutionTimes == {-Hour, 0}

PebcElements ==
    {[duration |-> d, lower_limit |-> p[1], upper_limit |-> p[2]] :
        d \in Durations, p \in LimitPairs}

Envelope(commodity_quantity, elements) ==
    [commodity_quantity |-> commodity_quantity,
     power_envelope_elements |-> elements]

ShortCurtail == [duration |-> 30 * 60 * 1000, lower_limit |-> -2000, upper_limit |-> 0]

PowerEnvelopes ==
    {<< Envelope("ElectricPowerL1", <<e>>) >> : e \in PebcElements}
    \cup {<< Envelope("ElectricPowerL2", <<ShortCurtail>>) >>}
    \cup {<< Envelope("ElectricPowerL2", <<ShortCurtail>>),
             Envelope("ElectricPowerL1", <<ShortCurtail, e>>) >> :
             e \in {x \in PebcElements : x.duration = 60 * 60 * 1000}}

PebcInstructions ==
    {[type |-> "PEBC.Instruction", id |-> i, execution_time |-> x,
      power_envelopes |-> p] :
        i \in InstructionIds, x \in ExecutionTimes, p \in PowerEnvelopes}

\* instructions of another control type, which the PEBC loop does not consume
ForeignInstructions ==
    {m \in FrbcInstructions : m.id = 1 /\ m.operation_mode = 1}

\* what connection.receive_message returns: Ok(message) or Err
ReceiveOutcomes == {"message", "error"}

-----------------------------------------------------------------------------
(* pv_simulator_pebc.rs, pv_simulator_simple.rs: start_mock *)

\* main.rs: CONTROL_TYPE selects pv_simulator_pebc or pv_simulator_simple;
\* start_mock begins with PvSimulator::new()
PvInit ==
    /\ program \in {"pebc", "simple"}
    /\ pc = "initialize_as_rm"
    /\ now = 0
    /\ sent = << >>
    /\ call = NoCall
    /\ result = << >>
    /\ profile = PvSimulatorNew(0).profile
    /\ time_delta = PvSimulatorNew(0).time_delta
    /\ constraints = PvSimulatorNew(0).constraints
    /\ operation_modes = EmptyMap
    /\ fill_level = 0
    /\ active_operation_mode = 0
    /\ operation_mode_factor = 0
    /\ simulation_start = 0
    /\ last_updated = 0

\* pebc lines 38-43
PebcInitializeAsRm(control_type) ==
    /\ program = "pebc" /\ pc = "initialize_as_rm"
    /\ pc' = IF control_type = "PowerEnvelopeBasedControl"
             THEN "send_power_constraints" ELSE "err"
    /\ UNCHANGED <<program, now, sent, call, result>>
    /\ SimulatorUnchanged

\* pebc lines 46-72
PebcSendPowerConstraints(n) ==
    /\ program = "pebc" /\ pc = "send_power_constraints"
    /\ SendAll(<< PowerConstraints(now) >>, n, "select")
    /\ UNCHANGED <<program, now, call, result>>
    /\ SimulatorUnchanged

\* simple lines 36-39
SimpleInitializeAsRm(control_type) ==
    /\ program = "simple" /\ pc = "initialize_as_rm"
    /\ pc' = IF control_type \in {"NoSelection", "NotControlable"}
             THEN "select" ELSE "err"
    /\ UNCHANGED <<program, now, sent, call, result>>
    /\ SimulatorUnchanged

\* the loop comes back to select!
PvLoop ==
    /\ program \in {"pebc", "simple"} /\ pc = "loop"
    /\ pc' = "select"
    /\ sent' = << >>
    /\ result' = << >>
    /\ call' = NoCall
    /\ UNCHANGED <<program, now>>
    /\ SimulatorUnchanged

\* pebc lines 79-110, a PEBC.Instruction arrives dt after the previous event
PebcReceiveInstruction(dt, instruction, n) ==
    /\ program = "pebc" /\ pc = "select"
    /\ IsPebcInstruction(instruction)
    /\ now' = now + dt
    /\ constraints' = StoreEnvelopes(constraints, instruction.execution_time,
                                     instruction.power_envelopes, now')
    /\ Len(constraints') <= MaxConstraints
    /\ call' = [op |-> "add_constraint",
                calls |-> AddConstraintCalls(instruction.power_envelopes),
                before |-> constraints,
                instruction |-> instruction]
    /\ result' = << >>
    /\ SendAll(<< InstructionStatusUpdate(instruction.id, "Succeeded", now') >>,
               n, "loop")
    /\ UNCHANGED <<program, profile, time_delta, batteryVars>>

\* pebc lines 81-85: any other message is logged and ignored
PebcReceiveOther(dt, msg) ==
    /\ program = "pebc" /\ pc = "select"
    /\ ~ IsPebcInstruction(msg)
    /\ now' = now + dt
    /\ pc' = "loop"
    /\ sent' = << >>
    /\ UNCHANGED <<program, call, result>>
    /\ SimulatorUnchanged

\* pebc line 80: msg? returns the receive error from start_mock
PebcReceiveError(dt) ==
    /\ program = "pebc" /\ pc = "select"
    /\ now' = now + dt
    /\ pc' = "err"
    /\ sent' = << >>
    /\ UNCHANGED <<program, call, result>>
    /\ SimulatorUnchanged

\* simple lines 46-50: whatever receive_message returns, a message or an
\* error, is logged and ignored
SimpleReceive(dt, received) ==
    /\ program = "simple" /\ pc = "select"
    /\ now' = now + dt
    /\ pc' = "loop"
    /\ sent' = << >>
    /\ call' = [op |-> "receive_message", received |-> received]
    /\ UNCHANGED <<program, result>>
    /\ SimulatorUnchanged

\* pebc lines 112-125, simple lines 52-64: the measurement timer fires
PvMeasurementTimer(dt, n) ==
    /\ program \in {"pebc", "simple"} /\ pc = "select"
    /\ now' = now + dt
    /\ call' = [op |-> "get_current_power",
                rounded_time |-> RoundedTime(now'),
                limits |-> IF program = "pebc"
                           THEN GetCurrentConstraints(constraints, now')
                           ELSE Unconstrained]
    /\ IF LookupMiss({RoundedTime(now')})
       THEN /\ pc' = "panic"
            /\ result' = << >>
            /\ sent' = << >>
       ELSE /\ result' = << IF program = "pebc" THEN GetCurrentPower(now')
                            ELSE GetCurrentPowerSimple(now') >>
            /\ SendAll(<< PowerMeasurement(IF program = "pebc" THEN result'[1]
                                           ELSE -result'[1], now') >>,
                       n, "loop")
    /\ UNCHANGED program
    /\ SimulatorUnchanged

\* pebc lines 127-138, simple lines 66-77: the forecast timer fires
PvForecastTimer(dt, n) ==
    /\ program \in {"pebc", "simple"} /\ pc = "select"
    /\ now' = now + dt
    /\ call' = [op |-> "get_24h_forecast", rounded_time |-> RoundedTime(now')]
    /\ IF LookupMiss(ForecastTimes(now'))
       THEN /\ pc' = "panic"
            /\ result' = << >>
            /\ sent' = << >>
       ELSE /\ result' = Get24hForecast(now')
            /\ SendAll(<< PowerForecast(IF program = "pebc" THEN result'
                                        ELSE Negated(result'), now') >>,
                       n, "loop")
    /\ UNCHANGED program
    /\ SimulatorUnchanged

\* pebc lines 140-155, simple lines 79-92: Ctrl-C breaks the loop, the
\* terminate request is sent and start_mock returns
PvCtrlC(n) ==
    /\ program \in {"pebc", "simple"} /\ pc = "select"
    /\ SendAll(<< SessionRequestTerminate >>, n, "ok")
    /\ UNCHANGED <<program, now, call, result>>
    /\ SimulatorUnchanged

PvNext ==
    \/ \E c \in Negotiations : PebcInitializeAsRm(c)
    \/ \E n \in SendOutcomes(1) : PebcSendPowerConstraints(n)
    \/ \E c \in Negotiations : SimpleInitializeAsRm(c)
    \/ PvLoop
    \/ /\ program = "pebc" /\ pc = "select"
       /\ \E dt \in PvElapsed(now), i \in PebcInstructions, n \in SendOutcomes(1) :
             PebcReceiveInstruction(dt, i, n)
    \/ /\ program = "pebc" /\ pc = "select"
       /\ \E dt \in PvElapsed(now), msg \in OtherMessages \cup ForeignInstructions :
             PebcReceiveOther(dt, msg)
    \/ /\ program = "pebc" /\ pc = "select"
       /\ \E dt \in PvElapsed(now) : PebcReceiveError(dt)
    \/ /\ program = "simple" /\ pc = "select"
       /\ \E dt \in PvElapsed(now), r \in ReceiveOutcomes : SimpleReceive(dt, r)
    \/ /\ program \in {"pebc", "simple"} /\ pc = "select"
       /\ \E dt \in PvElapsed(now), n \in SendOutcomes(1) : PvMeasurementTimer(dt, n)
    \/ /\ program \in {"pebc", "simple"} /\ pc = "select"
       /\ \E dt \in PvElapsed(now), n \in SendOutcomes(1) : PvForecastTimer(dt, n)
    \/ \E n \in SendOutcomes(1) : PvCtrlC(n)

SpecPv == PvInit /\ [][PvNext]_vars

\* main.rs of both crates: CONTROL_TYPE picks which of the three simulators
\* the process runs (FRBC; PEBC or NOT_CONTROLABLE)
SimulatorsInit == BatteryInit \/ PvInit

SimulatorsNext == BatteryNext \/ PvNext

SpecSimulators == SimulatorsInit /\ [][SimulatorsNext]_vars

-----------------------------------------------------------------------------
(* Storage simulator: claims *)

Range(f) == {f[x] : x \in DOMAIN f}

\* The catalog holds the three modes under three different keys
ThreeModes == Cardinality(DOMAIN operation_modes) = 3

\* C1: every FRBC instruction whose target operation mode is a key of the
\* catalog is answered by exactly three messages, in this order: a status
\* update marking the instruction id Succeeded, an actuator status (previous
\* mode, new mode, new factor, transition timestamp), and a storage status.
C1_AcceptedInstructionThreeMessages ==
    [][\A msg \in FrbcInstructions, dt \in {1, LongElapsed}, a \in NewV4, n \in {3} :
          (BatteryReceiveMessage(dt, msg, a, n)
              /\ ThreeModes /\ ContainsKey(operation_modes, msg.operation_mode))
          => /\ Len(result') = 3
             /\ result'[1].type = "InstructionStatusUpdate"
             /\ result'[1].instruction_id = msg.id
             /\ result'[1].status_type = "Succeeded"
             /\ result'[2].type = "FRBC.ActuatorStatus"
             /\ result'[2].previous_operation_mode_id = active_operation_mode
             /\ result'[2].active_operation_mode_id = msg.operation_mode
             /\ result'[2].operation_mode_factor = msg.operation_mode_factor
             /\ result'[2].transition_timestamp = now'
             /\ result'[3].type = "FRBC.StorageStatus"
      ]_vars

\* C2: every FRBC instruction whose target operation mode is not a key of the
\* catalog leaves the fill level and the active mode as they were and is
\* answered by exactly one message, a Rejected status for the instruction id;
\* the session goes on.
C2_RejectedInstructionNoChange ==
    [][\A msg \in FrbcInstructions, dt \in {1, LongElapsed}, a \in {1}, n \in {3} :
          (BatteryReceiveMessage(dt, msg, a, n)
              /\ ThreeModes /\ ~ContainsKey(operation_modes, msg.operation_mode))
          => /\ fill_level' = fill_level
             /\ active_operation_mode' = active_operation_mode
             /\ Len(result') = 1
             /\ result'[1].type = "InstructionStatusUpdate"
             /\ result'[1].instruction_id = msg.id
             /\ result'[1].status_type = "Rejected"
             /\ pc' = "loop"
      ]_vars

\* C3: after every update, whatever the elapsed time, the active mode and the
\* factor, the fill level lies in [0.0, 1.0], and so does the level the storage
\* status reports.
C3_FillLevelClamped ==
    program = "battery" =>
        /\ 0 <= fill_level /\ fill_level <= FillUnit
        /\ \A i \in 1..Len(result) :
              result[i].type = "FRBC.StorageStatus"
              => (0 <= result[i].present_fill_level /\ result[i].present_fill_level <= FillUnit)

\* C3, witness: an update whose integration overshot 1.0 left the level at 1.0
C3_Witness ==
    /\ program = "battery" /\ pc = "loop"
    /\ call.op = "update" /\ ~call.panicked
    /\ call.unclamped > FillUnit
    /\ fill_level = FillUnit
    /\ result = << StorageStatus(FillUnit) >>

\* C4: in every reachable state, from construction on, the active operation
\* mode is a key of the operation-mode catalog.
C4_ActiveModeInCatalog ==
    program = "battery" => active_operation_mode \in DOMAIN operation_modes

\* C5: three operation modes exist, and each identifier has one value for the
\* session: the id inside an advertised mode is its catalog key, the endpoints
\* of an advertised transition are the catalog keys of the modes it names, the
\* initial active mode is the idle mode's key, and a mode id advertised in the
\* system description is found in the catalog.
C5_IdentifiersStable ==
    program = "battery" =>
        /\ ThreeModes
        /\ pc = "initialize_as_rm" =>
              /\ active_operation_mode \in DOMAIN operation_modes
              /\ operation_modes[active_operation_mode].diagnostic_label = "Idle"
        /\ \A i \in 1..Len(result) :
              result[i].type = "FRBC.SystemDescription" =>
                 LET part == result[i].part IN
                 /\ part.kind = "operation_mode" =>
                       /\ part.id = part.key
                       /\ part.id \in DOMAIN operation_modes
                 /\ part.kind = "transition" =>
                       /\ part.from \in DOMAIN operation_modes
                       /\ part.to \in DOMAIN operation_modes
                       /\ operation_modes[part.from].diagnostic_label = part.labels[1]
                       /\ operation_modes[part.to].diagnostic_label = part.labels[2]

\* C6: every change of the active operation mode is one of the four declared
\* transitions (idle to charge, charge to idle, idle to discharge, discharge to
\* idle); the mode never goes directly from charge to discharge or back.
C6_OnlyDeclaredTransitions ==
    [][(/\ program = "battery" /\ ThreeModes
        /\ active_operation_mode \in DOMAIN operation_modes
        /\ active_operation_mode' # active_operation_mode)
       => << operation_modes[active_operation_mode].diagnostic_label,
             operation_modes[active_operation_mode'].diagnostic_label >>
          \in Range(DeclaredTransitions)
      ]_vars

-----------------------------------------------------------------------------
(* Generation simulators: claims *)

\* the positions of the registered constraints whose interval holds instant t
Covering(cs, t) ==
    {i \in DOMAIN cs : cs[i].start_time <= t /\ cs[i].end_time >= t}

\* the bounds of the earliest-inserted constraint holding instant t, the
\* unconstrained bounds if there is none
Applicable(cs, t) ==
    IF Covering(cs, t) = {} THEN << -NormUnit, NormUnit >>
    ELSE LET i == CHOOSE i \in Covering(cs, t) : \A j \in Covering(cs, t) : i <= j
         IN  << cs[i].lower_limit, cs[i].upper_limit >>

\* C7: the constraint lookup made for a power measurement returns the bounds
\* of the earliest-inserted registered constraint among those that cover the
\* current time, and the unconstrained bounds (-1.0, 1.0) when no registered
\* constraint covers it.
C7_FirstMatchGoverns ==
    (program = "pebc" /\ call.op = "get_current_power") =>
        LET covering == Covering(constraints, now)
        IN  IF covering = {} THEN call.limits = << -NormUnit, NormUnit >>
            ELSE \E i \in covering :
                    /\ \A j \in covering : i <= j
                    /\ call.limits = << constraints[i].lower_limit,
                                        constraints[i].upper_limit >>

\* Two constraints with different bounds, inserted one after the other, both
\* hold the current time strictly inside their interval, and the lookup
\* returned the bounds of the first.
C7_Witness ==
    /\ program = "pebc" /\ call.op = "get_current_power"
    /\ \E i, j \in DOMAIN constraints :
          /\ i < j
          /\ constraints[i].start_time < now /\ now < constraints[i].end_time
          /\ constraints[j].start_time < now /\ now < constraints[j].end_time
          /\ constraints[i].lower_limit # constraints[j].lower_limit
          /\ constraints[i].upper_limit # constraints[j].upper_limit
          /\ call.limits = << constraints[i].lower_limit, constraints[i].upper_limit >>

\* C8: right after an instruction has registered constraints (add_constraint),
\* the constraint list holds no interval whose end time is earlier than the
\* current time, whatever it held before and whatever was added.
C8_NoExpiredAfterAdd ==
    (program = "pebc" /\ call.op = "add_constraint" /\ call.calls > 0) =>
        \A i \in DOMAIN constraints : ~ (constraints[i].end_time < now)

\* add_constraint has run on a list that held an interval already ended, and
\* a constraint is registered afterwards.
C8_Witness ==
    /\ program = "pebc" /\ call.op = "add_constraint" /\ call.calls > 0
    /\ \E i \in DOMAIN call.before : call.before[i].end_time < now
    /\ constraints # << >>

\* C9 as stated: the value returned by get_current_power lies within
\* [lower_limit * POWER_IN_W, upper_limit * POWER_IN_W] of the constraint
\* applicable at the current time, whatever limits the instructions carried.
C9_PowerWithinBounds ==
    (program = "pebc" /\ call.op = "get_current_power" /\ Len(result) = 1) =>
        LET b == Applicable(constraints, now)
        IN  /\ TimesPowerInW(b[1]) <= result[1]
            /\ result[1] <= TimesPowerInW(b[2])

\* C9 amended: when the applicable constraint has lower_limit <= upper_limit
\* (the unconstrained bounds included) the value returned by
\* get_current_power lies within [lower_limit * POWER_IN_W,
\* upper_limit * POWER_IN_W]; when its lower_limit exceeds its upper_limit
\* the value is upper_limit * POWER_IN_W.
C9_PowerWithinOrderedBounds ==
    (program = "pebc" /\ call.op = "get_current_power" /\ Len(result) = 1) =>
        LET b == Applicable(constraints, now)
        IN  IF b[1] <= b[2]
            THEN /\ TimesPowerInW(b[1]) <= result[1]
                 /\ result[1] <= TimesPowerInW(b[2])
            ELSE result[1] = TimesPowerInW(b[2])

\* get_current_power has returned a value that a registered constraint with
\* lower_limit <= upper_limit moved away from the profile value.
C9_Witness ==
    /\ program = "pebc" /\ call.op = "get_current_power" /\ Len(result) = 1
    /\ Covering(constraints, now) # {}
    /\ Applicable(constraints, now)[1] <= Applicable(constraints, now)[2]
    /\ result[1] # TimesPowerInW(profile[call.rounded_time])

\* the next full hour after simulated instant s
NextFullHour(s) == ((s \div Hour) + 1) * Hour

\* C10: the result of get_24h_forecast has exactly 24 values, the first being
\* the profile value times POWER_IN_W of the next full simulated hour after
\* the current simulated time, the k-th that of the hour k-1 hours later, at
\* any minute within the hour: the hour the lookups start after is the one
\* the current simulated time lies in.
C10_ForecastFromNextFullHour ==
    (call.op = "get_24h_forecast" /\ pc # "panic") =>
        /\ Len(result) = 24
        /\ call.rounded_time + Hour = NextFullHour(now + time_delta)
        /\ \A k \in 1..24 :
              result[k] = TimesPowerInW(
                  profile[NextFullHour(now + time_delta) + (k - 1) * Hour])

\* the hour-aligned instant H with H <= s < H + 1 hour
HourOf(s) == s - (s % Hour)

\* C11: the profile entry get_current_power looks up is the one of the
\* current simulated time rounded down to the hour: at every simulated time t
\* with H <= t < H + 1 hour the entry for H is used, never that for H + 1 hour.
C11_CurrentPowerRoundsDown ==
    (call.op = "get_current_power") =>
        call.rounded_time = HourOf(now + time_delta)

\* C12: the forecast of the constrained simulator does not depend on the
\* constraint list: each value returned, and each value sent, is the
\* unclamped profile value times POWER_IN_W of the hour it stands for,
\* whatever constraints are registered or active.
C12_ForecastIgnoresConstraints ==
    (program = "pebc" /\ call.op = "get_24h_forecast" /\ pc # "panic") =>
        /\ \A k \in 1..24 :
              result[k] = TimesPowerInW(profile[call.rounded_time + k * Hour])
        /\ \A i \in DOMAIN sent : \A k \in 1..24 :
              sent[i].elements[k].value =
                  TimesPowerInW(profile[call.rounded_time + k * Hour])

\* A forecast was computed and sent while a registered constraint holds the
\* current time and would cut one of the forecast values.
C12_Witness ==
    /\ program = "pebc" /\ call.op = "get_24h_forecast" /\ Len(sent) = 1
    /\ Covering(constraints, now) # {}
    /\ \E k \in 1..24 :
          MaxMin(profile[call.rounded_time + k * Hour],
                 Applicable(constraints, now)) #
              profile[call.rounded_time + k * Hour]

-----------------------------------------------------------------------------
(* Storage simulator: numerics and ordering of update *)

\* the status tick has run update() to its end; the tick leaves the active
\* mode and the factor as they were
Ticked == program = "battery" /\ call.op = "update" /\ ~ call.panicked

\* the fill rates of the active mode
ActiveFillRate == operation_modes[active_operation_mode].fill_rate

\* a status tick has run update() in charge mode at factor 1.0 and the clamp
\* did not alter the level
ChargeTickAtFactorOne ==
    /\ Ticked
    /\ operation_modes[active_operation_mode].diagnostic_label = "Charging battery"
    /\ operation_mode_factor = FactorUnit
    /\ call.unclamped \in 0..FillUnit

\* C13 as stated: with active mode charge and factor 1.0, a status tick after
\* t seconds that reaches no clamp changes the fill level by the charge mode's
\* start-of-range fill rate times t.
C13_ChargeAtFactorOneStartRate ==
    ChargeTickAtFactorOne =>
        fill_level - call.before = ActiveFillRate.start_of_range * call.seconds

\* C13 amended: with active mode charge and factor 1.0, a status tick after
\* t whole seconds that reaches no clamp changes the fill level by the charge
\* mode's end-of-range fill rate times t.
C13_ChargeAtFactorOneEndRate ==
    ChargeTickAtFactorOne =>
        fill_level - call.before = ActiveFillRate.end_of_range * call.seconds

\* Such a tick has happened after a positive number of seconds and has raised
\* the fill level.
C13_Witness ==
    /\ ChargeTickAtFactorOne
    /\ call.seconds > 0
    /\ fill_level > call.before

\* C14: for every active mode and every factor, the rate the status tick
\* integrates is lo + (hi - lo) * factor, lo and hi being the start-of-range
\* and end-of-range fill rates of the active mode: the level before clamping
\* is the previous level plus that rate times the seconds elapsed.  The power
\* ranges of the mode do not enter.
C14_RateIsInterpolation ==
    Ticked =>
        LET lo == ActiveFillRate.start_of_range
            hi == ActiveFillRate.end_of_range
        IN  call.unclamped - call.before =
                (lo + ((hi - lo) * operation_mode_factor) \div FactorUnit) * call.seconds

\* The tick has integrated a positive number of seconds at factor 0.0 in a
\* mode whose two fill rates differ.
C14_Witness ==
    /\ Ticked
    /\ call.seconds > 0
    /\ operation_mode_factor = 0
    /\ ActiveFillRate.start_of_range # ActiveFillRate.end_of_range
    /\ call.unclamped # call.before

-----------------------------------------------------------------------------
(* Sessions: shutdown and failures *)

\* C15: in each of the three simulators, when Ctrl-C is taken by the loop the
\* session function sends the session-terminate request as its last outbound
\* message before it returns: a session that has returned Ok has just sent
\* the terminate request.
C15_TerminateSentOnCtrlC ==
    (pc = "ok") => sent = << SessionRequestTerminate >>

\* a receive or the handshake returned an error in this step
ReceiveFails ==
    \/ \E dt \in {1, LongElapsed} : BatteryReceiveError(dt)
    \/ BatteryInitializeAsRm("error")
    \/ \E dt \in {0, QuarterHour} : PebcReceiveError(dt)
    \/ \E dt \in {0, QuarterHour} : SimpleReceive(dt, "error")
    \/ PebcInitializeAsRm("error")
    \/ SimpleInitializeAsRm("error")

\* the first send of this step returned an error
SendFails ==
    \/ \E part \in DescriptionParts : BatterySendSystemDescription(part, 0)
    \/ BatterySendLeakageBehaviour(0)
    \/ BatterySendForecast(0)
    \/ \E dt \in {1, LongElapsed} : BatteryUpdateTimer(dt, 0) /\ ~ UpdatePanics
    \/ \E dt \in {1, LongElapsed}, msg \in FrbcInstructions, a \in NewV4 :
          BatteryReceiveMessage(dt, msg, a, 0) /\ ~ UpdatePanics /\ Len(result') > 0
    \/ PebcSendPowerConstraints(0)
    \/ \E dt \in {0, QuarterHour} :
          \/ PvMeasurementTimer(dt, 0)
          \/ PvForecastTimer(dt, 0)
          \/ \E i \in PebcInstructions : PebcReceiveInstruction(dt, i, 0)
    \/ PvCtrlC(0)

\* C16: in each of the three simulators a transport failure is fatal: a step
\* in which a receive or a send returns an error ends the session function
\* with an error, and a session that has ended with an error takes no
\* further step (nothing more is sent or handled, nothing is retried).
C16_TransportFailureFatal ==
    [][/\ pc # "err"
       /\ (ReceiveFails \/ SendFails) => pc' = "err"]_vars

\* the handshake of this step negotiated a control type the simulator does
\* not support
UnsupportedControlType ==
    \E c \in ControlTypes :
        \/ BatteryInitializeAsRm(c) /\ c # "FillRateBasedControl"
        \/ PebcInitializeAsRm(c) /\ c # "PowerEnvelopeBasedControl"
        \/ SimpleInitializeAsRm(c) /\ c \notin {"NotControlable", "NoSelection"}

\* C17: in each of the three simulators, a handshake that negotiates a
\* control type the simulator does not support aborts the session startup
\* with an error, and no message is sent after it: the step ends in the error
\* state with nothing sent, and the error state is never left.
C17_UnsupportedControlTypeAborts ==
    [][/\ pc # "err"
       /\ UnsupportedControlType => (pc' = "err" /\ sent' = << >>)]_vars

-----------------------------------------------------------------------------
(* Generation simulators: sign convention *)

\* profile value times POWER_IN_W of the hour k hours after the rounded time
\* of the last call (k = 0: the rounded time itself)
ProfileWatts(k) == TimesPowerInW(profile[call.rounded_time + k * Hour])

\* C18: every power measurement and every forecast value the unconstrained
\* simulator sends is the negation of the profile value times POWER_IN_W,
\* hence never positive; the constrained simulator sends the value its
\* simulator returned without negation, which with no applicable constraint
\* is the profile value times POWER_IN_W: at the same simulated time the
\* values of the two are exact negatives of each other.
C18_SignConvention ==
    /\ (call.op = "get_current_power" /\ Len(sent) = 1) =>
          /\ program = "simple" =>
                (sent[1].value = - ProfileWatts(0) /\ sent[1].value <= 0)
          /\ program = "pebc" =>
                /\ sent[1].value = result[1]
                /\ Covering(constraints, now) = {} => sent[1].value = ProfileWatts(0)
    /\ (call.op = "get_24h_forecast" /\ Len(sent) = 1) =>
          \A k \in 1..24 :
              /\ program = "simple" =>
                    /\ sent[1].elements[k].value = - ProfileWatts(k)
                    /\ sent[1].elements[k].value <= 0
              /\ program = "pebc" => sent[1].elements[k].value = ProfileWatts(k)

\* The unconstrained simulator has sent a forecast holding a negative value.
C18_Witness ==
    /\ program = "simple" /\ call.op = "get_24h_forecast" /\ Len(sent) = 1
    /\ \E k \in 1..24 : sent[1].elements[k].value < 0

-----------------------------------------------------------------------------
(* Storage simulator: ordering and frame of process_message *)

\* the fill level reached from the current state after the given seconds at
\* the current mode and factor
Integrated(seconds) ==
    LET lo == operation_modes[active_operation_mode].fill_rate.start_of_range
        hi == operation_modes[active_operation_mode].fill_rate.end_of_range
        level == fill_level
                   + (lo + ((hi - lo) * operation_mode_factor) \div FactorUnit) * seconds
    IN  IF level < 0 THEN 0 ELSE IF level > FillUnit THEN FillUnit ELSE level

\* this step is process_message answering an instruction with Succeeded
AcceptStep ==
    /\ program = "battery" /\ pc = "select"
    /\ call'.op = "process_message"
    /\ Len(result') >= 1
    /\ result'[1].status_type = "Succeeded"

\* C19: for an accepted instruction, the time elapsed since the previous
\* update is integrated at the rate of the mode and factor that were active
\* before the instruction, the storage status of the reply reports exactly
\* that fill level, and the mode and factor the reply announces are the ones
\* active from then on, from the instant of the instruction.
C19_ResyncBeforeInstruction ==
    [][AcceptStep =>
          /\ fill_level' = Integrated(NumSeconds(now' - last_updated))
          /\ Len(result') = 3
          /\ result'[3].present_fill_level = fill_level'
          /\ result'[2].previous_operation_mode_id = active_operation_mode
          /\ active_operation_mode' = result'[2].active_operation_mode_id
          /\ operation_mode_factor' = result'[2].operation_mode_factor
          /\ last_updated' = now'
      ]_vars

\* An instruction was accepted a positive number of seconds after the previous
\* update, it changed the active mode, and the fill level moved over that
\* time although the new mode at the new factor has rate zero.
C19_Witness ==
    /\ program = "battery" /\ call.op = "process_message" /\ ~ call.panicked
    /\ Len(result) = 3
    /\ call.seconds > 0
    /\ result[2].previous_operation_mode_id # result[2].active_operation_mode_id
    /\ fill_level # call.before
    /\ FillRate(operation_modes[active_operation_mode].fill_rate,
                operation_mode_factor) = 0

\* this step is process_message on a message that is no FRBC instruction (no
\* reply) or on an instruction it rejects
NotAcceptStep ==
    /\ program = "battery" /\ pc = "select"
    /\ call'.op = "process_message"
    /\ (Len(result') = 0 \/ result'[1].status_type = "Rejected")

\* C20 as stated: fill level, active mode, factor and last-updated timestamp
\* change only on the status tick and on an accepted instruction: a message
\* that is no FRBC instruction, and a rejected instruction, leave all four
\* unchanged.
C20_StateChangesOnlyOnTickOrAccept ==
    [][NotAcceptStep =>
          UNCHANGED <<fill_level, active_operation_mode,
                      operation_mode_factor, last_updated>>
      ]_vars

\* C20 amended: active mode and factor change only on an accepted
\* instruction, and the four fields change only on the status tick or on an
\* inbound message; a message that is no FRBC instruction and a rejected
\* instruction leave the active mode and the factor unchanged, but like
\* every inbound message they run update() first: last-updated becomes the
\* current time and the fill level is re-integrated over the elapsed time.
C20_EveryMessageResyncs ==
    [][/\ NotAcceptStep =>
             /\ UNCHANGED <<active_operation_mode, operation_mode_factor>>
             /\ last_updated' = now'
             /\ ~ call'.panicked =>
                   fill_level' = Integrated(NumSeconds(now' - last_updated))
       /\ <<active_operation_mode, operation_mode_factor>>' #
             <<active_operation_mode, operation_mode_factor>> => AcceptStep
       /\ <<fill_level, last_updated>>' # <<fill_level, last_updated>>
             => call'.op \in {"update", "process_message"}
      ]_vars

\* A message that is no FRBC instruction was handled (no reply) and the fill
\* level has moved.
C20_Witness ==
    /\ program = "battery" /\ pc = "loop"
    /\ call.op = "process_message" /\ ~ call.panicked
    /\ Len(result) = 0
    /\ fill_level # call.before


-----------------------------------------------------------------------------
(* Session start, instructions, unknown messages, integrator: claims *)

MessageTypes(msgs) == {msgs[i].type : i \in 1..Len(msgs)}

SessionStartTypes ==
    {"FRBC.SystemDescription", "FRBC.LeakageBehaviour", "FRBC.UsageForecast",
     "PEBC.PowerConstraints"}

PeriodicTypes ==
    {"FRBC.StorageStatus", "FRBC.ActuatorStatus", "InstructionStatusUpdate",
     "PowerMeasurement", "PowerForecast"}

\* The first entry into the select loop (every later one comes from "loop")
EntersLoop == pc' = "select" /\ pc # "loop"

\* C21: the session-start documents are sent once per session, after the
\* handshake and before any periodic message or instruction reply: the storage
\* simulator sends its system description, then its leakage behaviour, then a
\* usage forecast of 24 hourly elements of zero expected usage, in that order,
\* and the constrained generation simulator sends its power constraints; the
\* loop that follows sends none of them again.
C21_SessionStartDocumentsOnce ==
    [][ /\ pc' = "send_system_description" => pc = "initialize_as_rm"
        /\ pc' = "send_leakage_behaviour" =>
              /\ pc = "send_system_description"
              /\ Len(sent') = 1 /\ sent'[1].type = "FRBC.SystemDescription"
        /\ pc' = "send_forecast" =>
              /\ pc = "send_leakage_behaviour"
              /\ Len(sent') = 1 /\ sent'[1].type = "FRBC.LeakageBehaviour"
        /\ (program = "battery" /\ EntersLoop) =>
              /\ pc = "send_forecast"
              /\ Len(sent') = 1 /\ sent'[1].type = "FRBC.UsageForecast"
              /\ Len(sent'[1].elements) = 24
              /\ \A i \in 1..24 :
                    /\ sent'[1].elements[i].duration = 1000 * 3600
                    /\ sent'[1].elements[i].usage_rate_expected = 0
        /\ pc' = "send_power_constraints" => pc = "initialize_as_rm"
        /\ (program = "pebc" /\ EntersLoop) =>
              /\ pc = "send_power_constraints"
              /\ Len(sent') = 1 /\ sent'[1].type = "PEBC.PowerConstraints"
        /\ MessageTypes(sent') \cap PeriodicTypes # {} => pc = "select"
        /\ pc \in {"select", "loop"} =>
              MessageTypes(sent') \cap SessionStartTypes = {}
      ]_vars

\* The storage simulator has just entered its loop with its three documents out
C21_Witness ==
    /\ program = "battery" /\ pc = "select"
    /\ Len(sent) = 1 /\ sent[1].type = "FRBC.UsageForecast"

\* The elements of the envelopes of the tracked commodity, in order of arrival
RECURSIVE TrackedElements(_)
TrackedElements(envelopes) ==
    IF envelopes = << >> THEN << >>
    ELSE (IF Head(envelopes).commodity_quantity = "ElectricPowerL1"
          THEN Head(envelopes).power_envelope_elements ELSE << >>)
         \o TrackedElements(Tail(envelopes))

SelectSeqEndingAfter(cs, t) ==
    LET Test(c) == c.end_time > t IN SelectSeq(cs, Test)

\* C22: every PEBC instruction received is answered with exactly one status
\* "Succeeded" carrying the instruction's id, whatever the number of envelopes
\* and elements; envelopes of another commodity register nothing and raise no
\* error; each element of an envelope of the tracked commodity registers one
\* constraint from the execution time to the execution time plus its duration,
\* its limits divided by POWER_IN_W (a list that was added to then keeps what
\* has not ended).
C22_InstructionRegisteredAndAccepted ==
    (program = "pebc" /\ call.op = "add_constraint") =>
        LET instruction == call.instruction
            elements == TrackedElements(instruction.power_envelopes)
            registered ==
                [k \in 1..Len(elements) |->
                    [start_time |-> instruction.execution_time,
                     end_time |-> instruction.execution_time
                                    + (elements[k].duration \div 1000) * TicksPerSecond,
                     lower_limit |-> (elements[k].lower_limit * NormUnit) \div POWER_IN_W,
                     upper_limit |-> (elements[k].upper_limit * NormUnit) \div POWER_IN_W]]
        IN  /\ constraints = IF elements = << >> THEN call.before
                              ELSE SelectSeqEndingAfter(call.before \o registered, now)
            /\ \A k \in 1..Len(elements) :
                  /\ registered[k].lower_limit * POWER_IN_W = elements[k].lower_limit * NormUnit
                  /\ registered[k].upper_limit * POWER_IN_W = elements[k].upper_limit * NormUnit
            /\ pc \in {"loop", "err"}
            /\ Len(sent) <= 1
            /\ pc = "loop" <=> Len(sent) = 1
            /\ Len(sent) = 1 =>
                  /\ sent[1].type = "InstructionStatusUpdate"
                  /\ sent[1].status_type = "Succeeded"
                  /\ sent[1].instruction_id = instruction.id

\* An instruction with an envelope of another commodity and an envelope of the
\* tracked commodity holding two elements has been stored and answered
C22_Witness ==
    /\ program = "pebc" /\ call.op = "add_constraint"
    /\ Len(call.instruction.power_envelopes) = 2
    /\ call.before = << >> /\ Len(constraints) = 2
    /\ Len(sent) = 1

\* a message of a kind the simulator does not consume is received in this step
UnconsumedMessageReceived ==
    \/ \E dt \in Elapsed(now), msg \in OtherMessages :
          BatteryReceiveMessage(dt, msg, 1, 0)
    \/ \E dt \in {0, QuarterHour}, msg \in OtherMessages \cup ForeignInstructions :
          PebcReceiveOther(dt, msg)
    \/ \E dt \in {0, QuarterHour} : SimpleReceive(dt, "message")

\* C23: in each of the three simulators, an inbound message of a kind the
\* simulator does not consume produces no outbound message, changes neither the
\* active mode and factor nor the constraint list, raises no error, and the
\* loop goes on.
C23_UnconsumedMessageIgnored ==
    [][UnconsumedMessageReceived =>
          /\ sent' = << >>
          /\ UNCHANGED <<active_operation_mode, operation_mode_factor, constraints>>
          /\ pc' = "loop"]_vars

\* the constraints whose half-open interval [start_time, end_time) holds t
HalfOpenCovering(cs, t) ==
    {i \in DOMAIN cs : cs[i].start_time <= t /\ t < cs[i].end_time}

\* C24: a constraint governs over the half-open interval [start, end): the
\* limits a measurement is taken under are those of the first constraint with
\* start <= now < end, and the default limits when there is none; a constraint
\* does not apply at the instant of its end.
C24_HalfOpenInterval ==
    (program = "pebc" /\ call.op = "get_current_power") =>
        LET covering == HalfOpenCovering(constraints, now)
        IN  call.limits =
                IF covering = {} THEN Unconstrained
                ELSE LET i == CHOOSE j \in covering : \A k \in covering : j <= k
                     IN  << constraints[i].lower_limit, constraints[i].upper_limit >>

\* update() runs in this step (status tick or inbound message) without a
\* panic and without reaching the clamp
UnclampedUpdateStep ==
    /\ program = "battery" /\ pc = "select"
    /\ call'.op \in {"update", "process_message"}
    /\ ~ call'.panicked
    /\ call'.unclamped \in 0..FillUnit

\* C25: the integrator loses no elapsed time: every update that reaches no
\* clamp, whether a status tick or the one an inbound message triggers, moves
\* the fill level by the rate of the active mode and factor times the whole
\* time elapsed since the previous update, also when that is less than one
\* second; with mode and factor constant the level after any sequence of ticks
\* and messages is then the rate times the total elapsed time.
C25_NoElapsedTimeLost ==
    [][UnclampedUpdateStep =>
          (fill_level' - fill_level) * TicksPerSecond =
              FillRate(ActiveFillRate, operation_mode_factor) * (now' - last_updated)
      ]_vars

ActiveLabel == operation_modes[active_operation_mode].diagnostic_label

\* C26: across a status tick with a factor in [0, 1], the fill level does not
\* rise while the active mode is discharge, does not fall while it is charge,
\* and does not change while it is idle.
C26_FillDirectionFollowsMode ==
    (Ticked /\ operation_mode_factor \in 0..FactorUnit) =>
        /\ ActiveLabel = "Discharging battery" => fill_level <= call.before
        /\ ActiveLabel = "Charging battery" => fill_level >= call.before
        /\ ActiveLabel = "Idle" => fill_level = call.before

\* C27: whatever limits the instructions accepted so far carried, every power
\* measurement the PEBC simulator sends has a value of at least 0 and at most
\* POWER_IN_W.
C27_MeasurementWithinRatedPower ==
    (program = "pebc" /\ call.op = "get_current_power" /\ Len(sent) = 1) =>
        /\ sent[1].type = "PowerMeasurement"
        /\ sent[1].value >= 0
        /\ sent[1].value <= POWER_IN_W

=============================================================================
